---- MODULE Spec2Model ----
(***************************************************************************)
(* The command supervisor of bacon: the orchestration loop run() of        *)
(* src/src/app.rs and the MissionExecutor / TaskExecutor of                *)
(* src/src/executor.rs, with the threads each task starts (supervisor,     *)
(* stderr reader, stdout reader) and the supervised child process.         *)
(*                                                                         *)
(* The methods of AppState (state.rs) are not part of the available        *)
(* sources: they are modelled from the specification and kept in separate  *)
(* operators (computation_starts, receive_watch_event, add_line, ...).     *)
(*                                                                         *)
(* Not modelled: errors of read_line (logged, the read is retried, no      *)
(* state changes), an error of Child::wait (the process is then no longer  *)
(* a child of the supervisor), the state of the rendering collaborator     *)
(* (scroll position, raw/summary/wrap modes, terminal size), and the       *)
(* backtrace flag of the Task settings, which only selects the value of    *)
(* RUST_BACKTRACE in the child's environment.                              *)
(***************************************************************************)
EXTENDS Integers, Sequences, FiniteSets, TLC

\* ---------------------------------------------------------------- bounds
MaxTasks == 2      \* tasks started during one run(), the first included
MaxLines == 1      \* lines a child writes to its output streams
MaxChanges == 1    \* change signals counted between two task starts

Tasks == 1..MaxTasks
NoTask == 0

\* ---------------------------------------------------------------- types
OnChangeStrategy == {"WaitThenRestart", "KillThenRestart"}
AutoRefresh == {"Enabled", "Paused"}
StopMessage == {"SendStatus", "Kill"}
CommandStream == {"StdOut", "StdErr"}
\* kill_command: Option<Vec<String>>: absent, an empty vector, or a command
KillCommands == {"None", "Empty", "Cmd"}
\* the outcomes of running a non-empty kill command
KillOutcomes == {"spawn_failed", "nonzero", "success"}
Internal == {"Back", "Help", "Quit", "Refresh", "ReRun", "ToggleRawOutput",
             "ToggleSummary", "ToggleWrap", "ToggleBacktrace", "Scroll",
             "Pause", "Unpause", "TogglePause"}
Actions == Internal \cup {"Export", "Job"}
NoAction == "None"
\* raw filesystem event kinds the watcher callback distinguishes
EventKinds == {"ModifyMetadata", "ModifyDataAny", "AccessCloseWrite",
               "AccessOther", "Other"}
\* results of the exclusion predicate; "NoIgnorer" when none is configured
Exclusions == {"NoIgnorer", "AllExcluded", "SomeIncluded", "CheckFailed"}
RawEvents == [kind : EventKinds, excl : Exclusions]
NoEvent == [kind |-> "none", excl |-> "none"]

VARIABLES
    \* --- mission configuration, fixed during a run
    on_change_strategy, with_stdout, kill_command,
    \* --- the watcher callback
    raw_event,          \* the raw filesystem event the callback is handling, with
                        \* the answer the exclusion predicate gives for its paths
    \* --- run(): position and locals
    pc,                 \* "select" | "die" | "join" | "exit_die" | "exit_join" | "returned"
    action,             \* the restarting action being applied, NoAction between iterations
    next_job,           \* "None" | "Previous" | "Job"
    ret,                \* "none" | "ok" | "err": how run() returned
    task_executor,      \* the task the local task_executor holds, NoTask once moved out
    started,            \* number of successful MissionExecutor::start calls
    asked,              \* tasks on which die() has been called
    \* --- AppState
    computing, auto_refresh, changes_since_last_job_start,
    output,             \* accumulated lines, each the task that produced it
    cmd_result,         \* the last End handled: its task and exit status
    help,
    \* --- MissionExecutor: the unbounded output channel
    line_channel,
    \* --- per task
    child,              \* "none" | "running" | "exited" (not reaped) | "reaped"
    left,               \* lines the process can still write
    stderr_open, stderr_pipe, stderr_reader,
    stdout_open, stdout_pipe,
    stdout_reader,      \* the stdout reader thread: "none" | "reading" | "done"
    child_thread,       \* the supervisor thread: "none" | "recv" | "kill" |
                        \* "fallback" | "kill_wait" | "wait" | "done"
    stop_channel,       \* the bounded(1) control channel
    stop,               \* what the supervisor's recv() returned: "none" | "SendStatus" |
                        \* "Kill" | "Disconnected" (Err: every sender is gone)
    terminals           \* terminal events the task has put on the output channel

missionVars == <<on_change_strategy, with_stdout, kill_command>>
cfgVars == <<missionVars, raw_event>>
runVars == <<pc, action, next_job, ret, task_executor, started, asked>>
stateVars == <<computing, auto_refresh, changes_since_last_job_start, output,
               cmd_result, help>>
errVars == <<stderr_open, stderr_pipe, stderr_reader>>
outVars == <<stdout_open, stdout_pipe, stdout_reader>>
supVars == <<child_thread, stop_channel, stop, terminals>>
taskVars == <<child, left, errVars, outVars, supVars>>
vars == <<cfgVars, runVars, stateVars, line_channel, taskVars>>

\* ---------------------------------------------------------------- channels
StopCapacity == 1

\* a Line carries the number of the line it was read from (0 for stdout,
\* whose lines are not told apart)
Line(t, origin, no) == [kind |-> "Line", task |-> t, info |-> origin, no |-> no]
End(t, status) == [kind |-> "End", task |-> t, info |-> status, no |-> 0]
Interruption(t) == [kind |-> "Interruption", task |-> t, info |-> "none", no |-> 0]

\* the receiver of the output channel lives in the MissionExecutor, a local
\* of run()
LineReceiverAlive == pc # "returned"

\* once the loop is left nothing is received any more: what the channel
\* holds is not kept from then on
LineReceiving == pc \notin {"exit_die", "exit_join", "returned"}

\* line_sender.send(ev): Err once the receiver is gone
LineSend(ev) == IF LineReceiving THEN Append(line_channel, ev) ELSE line_channel

\* the receiver of the control channel is owned by the supervisor's closure
StopReceiverAlive(t) == child_thread[t] # "done"

\* a send on the control channel can proceed: room, or disconnected (Err)
StopSendReady(t) == \/ ~StopReceiverAlive(t)
                    \/ Len(stop_channel[t]) < StopCapacity

StopSend(t, msg) ==
    IF StopReceiverAlive(t)
    THEN [stop_channel EXCEPT ![t] = Append(@, msg)]
    ELSE stop_channel

\* the senders of the control channel: the TaskExecutor's stop_sender and the
\* stderr reader's err_stop_sender
StopSendersGone(t) == task_executor # t /\ stderr_reader[t] = "done"


\* ---------------------------------------------------------------- AppState
\* (state.rs is not among the sources; these follow the specification)

\* computation_starts(): the state is Computing
computation_starts == TRUE

\* receive_watch_event(): one more change since the last task start
receive_watch_event == changes_since_last_job_start + 1

is_computing == computing

\* take_output(): the accumulated lines are moved out of the state
take_output == <<>>

\* add_line(line)
add_line(t) == Append(output, t)

\* CommandResult::new(output, status); NoResult before any End was handled
NoResult == [task |-> NoTask, status |-> "none"]
CommandResult(ev) == [task |-> ev.task, status |-> ev.info]

\* state.action(), called when a task has ended: the restart deferred by
\* changes received during the computation, else what the result-handling
\* policy (on success, on failure) yields: any action, or none
ResultActions ==
    IF auto_refresh = "Enabled" /\ changes_since_last_job_start > 0
    THEN {"ReRun"}
    ELSE Actions \cup {NoAction}

\* clear(): the accumulated output and the last result are forgotten
ClearedOutput == <<>>
ClearedResult == NoResult

\* ---------------------------------------------------------------- executor
\* MissionExecutor::new (executor.rs 84-90): the child's stdout is a pipe when
\* the mission needs it, else the null device; the stdout reader is started
\* under the same condition (executor.rs 120)
StdoutAlwaysPiped == TRUE
StdoutPiped == with_stdout

\* MissionExecutor::start, the part that runs on the caller's thread and the
\* first steps of the supervisor: the child is spawned with both readers
\* attached and the supervisor waiting on the control channel
StartTask(t) ==
    /\ child' = [child EXCEPT ![t] = "running"]
    /\ left' = [left EXCEPT ![t] = MaxLines]
    /\ stderr_open' = [stderr_open EXCEPT ![t] = TRUE]
    /\ stderr_reader' = [stderr_reader EXCEPT ![t] = "reading"]
    /\ stdout_open' = [stdout_open EXCEPT ![t] = StdoutPiped]
    /\ stdout_reader' = [stdout_reader EXCEPT ![t] =
                            IF StdoutPiped THEN "reading" ELSE "none"]
    /\ child_thread' = [child_thread EXCEPT ![t] = "recv"]
    /\ UNCHANGED <<stderr_pipe, stdout_pipe, stop_channel, stop, terminals>>

\* --- the supervised process (environment)
\* the process ends, by itself or killed: its ends of the pipes are closed
Terminated(t) ==
    /\ child' = [child EXCEPT ![t] = IF @ = "running" THEN "exited" ELSE @]
    /\ stderr_open' = [stderr_open EXCEPT ![t] = FALSE]
    /\ stdout_open' = [stdout_open EXCEPT ![t] = FALSE]
    /\ left' = [left EXCEPT ![t] = 0]

ChildWriteStderr(t) ==
    /\ child[t] = "running" /\ stderr_open[t]
    /\ left[t] > 0
    /\ left' = [left EXCEPT ![t] = @ - 1]
    /\ stderr_pipe' = [stderr_pipe EXCEPT ![t] = Append(@, left[t])]
    /\ UNCHANGED <<cfgVars, runVars, stateVars, line_channel, child,
                   stderr_open, stderr_reader, outVars, supVars>>

\* a line written to stdout: into the pipe, or lost in the null device
ChildWriteStdout(t) ==
    /\ child[t] = "running"
    /\ stdout_open[t] \/ ~StdoutPiped
    /\ left[t] > 0
    /\ left' = [left EXCEPT ![t] = @ - 1]
    /\ stdout_pipe' = [stdout_pipe EXCEPT ![t] = IF StdoutPiped THEN @ + 1 ELSE @]
    /\ UNCHANGED <<cfgVars, runVars, stateVars, line_channel, child,
                   stdout_open, stdout_reader, errVars, supVars>>

\* the process closes its stderr and keeps running
ChildCloseStderr(t) ==
    /\ child[t] = "running" /\ stderr_open[t]
    /\ stderr_open' = [stderr_open EXCEPT ![t] = FALSE]
    /\ UNCHANGED <<cfgVars, runVars, stateVars, line_channel, child, left,
                   stderr_pipe, stderr_reader, outVars, supVars>>

ChildExit(t) ==
    /\ child[t] = "running"
    /\ Terminated(t)
    /\ UNCHANGED <<cfgVars, runVars, stateVars, line_channel,
                   stderr_pipe, stderr_reader, stdout_pipe, stdout_reader,
                   supVars>>

\* --- the stdout reader thread (executor.rs 127-150), started when the
\* stdout is piped; nothing waits for it
StdoutReadLine(t) ==
    /\ stdout_reader[t] = "reading"
    /\ stdout_pipe[t] > 0
    /\ stdout_pipe' = [stdout_pipe EXCEPT ![t] = @ - 1]
    /\ line_channel' = LineSend(Line(t, "StdOut", 0))
    /\ stdout_reader' = [stdout_reader EXCEPT ![t] =
                            IF LineReceiverAlive THEN "reading" ELSE "done"]
    /\ UNCHANGED <<cfgVars, runVars, stateVars, child, left,
                   errVars, stdout_open, supVars>>

\* whether the stdout reader tells the supervisor of the end of its stream:
\* it only breaks out of its loop (executor.rs 133-136)
StdoutEofSendsStatus == TRUE
StdoutEofSignals == FALSE

\* end of the stdout stream: the reader thread ends
StdoutEof(t) ==
    /\ stdout_reader[t] = "reading"
    /\ stdout_pipe[t] = 0 /\ ~stdout_open[t]
    /\ StdoutEofSignals => StopSendReady(t)
    /\ stop_channel' = IF StdoutEofSignals
                       THEN StopSend(t, "SendStatus") ELSE stop_channel
    /\ stdout_reader' = [stdout_reader EXCEPT ![t] = "done"]
    /\ UNCHANGED <<cfgVars, runVars, stateVars, line_channel, child, left,
                   errVars, stdout_open, stdout_pipe,
                   child_thread, stop, terminals>>

\* --- the stderr reader thread (executor.rs 158-183)
StderrReadLine(t) ==
    /\ stderr_reader[t] = "reading"
    /\ stderr_pipe[t] # <<>>
    /\ stderr_pipe' = [stderr_pipe EXCEPT ![t] = Tail(@)]
    /\ line_channel' = LineSend(Line(t, "StdErr", Head(stderr_pipe[t])))
    /\ stderr_reader' = [stderr_reader EXCEPT ![t] =
                            IF LineReceiverAlive THEN "reading" ELSE "done"]
    /\ UNCHANGED <<cfgVars, runVars, stateVars, child, left,
                   outVars, stderr_open, supVars>>

\* read_line answers Ok(0) only when every line written to the pipe has
\* been read (executor.rs 161, 165)
StderrAnyTime(t) == TRUE
StderrDrained(t) == stderr_pipe[t] = <<>>

\* end of stream: SendStatus goes to the supervisor (the send waits for room
\* in the single slot, and fails once the supervisor is gone)
StderrEof(t) ==
    /\ stderr_reader[t] = "reading"
    /\ StderrDrained(t) /\ ~stderr_open[t]
    /\ StopSendReady(t)
    /\ stop_channel' = StopSend(t, "SendStatus")
    /\ stderr_reader' = [stderr_reader EXCEPT ![t] = "done"]
    /\ UNCHANGED <<cfgVars, runVars, stateVars, line_channel, child, left,
                   outVars, stderr_open, stderr_pipe,
                   child_thread, stop, terminals>>

\* --- the supervisor thread (executor.rs 185-206)
\* child.try_wait(): Ok(None) while the process runs, Ok(Some(status)), which
\* reaps it, once it has ended, or Err
TryWaitOutcomes(t) ==
    IF child[t] = "running" THEN {"running", "error"}
    ELSE {"success", "failure", "error"}

\* the events the Kill branch (and the abandoned-channel branch) puts on the
\* output channel: none
KillInterruptionSent(t) == <<Interruption(t)>>
KillEvents(t) == <<>>

\* whether the supervisor kills the process when recv() returns Err, as it
\* does on Kill (executor.rs 199-202)
RecvErrWaits == FALSE
RecvErrKills == TRUE

\* the supervisor's recv() returns: a message, or Err when the channel is
\* empty and every sender is gone
SupervisorRecv(t) ==
    /\ child_thread[t] = "recv"
    /\ \/ /\ stop_channel[t] # <<>>
          /\ Head(stop_channel[t]) = "SendStatus"
          /\ stop' = [stop EXCEPT ![t] = "SendStatus"]
          /\ stop_channel' = [stop_channel EXCEPT ![t] = Tail(@)]
          /\ child_thread' = [child_thread EXCEPT ![t] = "wait"]
          /\ \E status \in TryWaitOutcomes(t) :
                /\ child' = [child EXCEPT ![t] =
                                IF @ = "exited" /\ status # "error" THEN "reaped" ELSE @]
                /\ IF status # "error"
                   THEN /\ line_channel' = LineSend(End(t, status))
                        /\ terminals' = [terminals EXCEPT ![t] =
                                            IF LineReceiverAlive THEN @ + 1 ELSE @]
                   ELSE UNCHANGED <<line_channel, terminals>>
       \/ /\ \/ /\ stop_channel[t] # <<>>
                /\ Head(stop_channel[t]) = "Kill"
                /\ stop' = [stop EXCEPT ![t] = "Kill"]
                /\ stop_channel' = [stop_channel EXCEPT ![t] = Tail(@)]
             \/ /\ stop_channel[t] = <<>>
                /\ StopSendersGone(t)
                /\ stop' = [stop EXCEPT ![t] = "Disconnected"]
                /\ UNCHANGED stop_channel
          /\ child_thread' = [child_thread EXCEPT ![t] =
                                  IF stop'[t] = "Kill" \/ RecvErrKills
                                  THEN "kill" ELSE "wait"]
          /\ line_channel' = IF LineReceiverAlive
                             THEN line_channel \o KillEvents(t) ELSE line_channel
          /\ terminals' = [terminals EXCEPT ![t] =
                              IF LineReceiverAlive THEN @ + Len(KillEvents(t)) ELSE @]
          /\ UNCHANGED child
    /\ UNCHANGED <<cfgVars, runVars, stateVars, left, errVars, outVars>>

\* kill(): whether the default child.kill() is used after run_kill_command
\* returned `outcome` ("absent" when no kill command is configured)
KillNeverFallsBack(outcome) == outcome = "absent"
KillFallsBack(outcome) == outcome # "success"

\* run_kill_command: the outcomes the configured command can have
RunKillCommand ==
    CASE kill_command = "None" -> {"absent"}
      [] kill_command = "Empty" -> {"empty"}
      [] OTHER -> KillOutcomes

\* kill(): the custom command first, when there is one
SupervisorKill(t) ==
    /\ child_thread[t] = "kill"
    /\ \E outcome \in RunKillCommand :
          child_thread' = [child_thread EXCEPT ![t] =
              IF outcome = "success" THEN "kill_wait"
              ELSE IF KillFallsBack(outcome) THEN "fallback" ELSE "wait"]
    /\ UNCHANGED <<cfgVars, runVars, stateVars, line_channel, child, left,
                   errVars, outVars, stop_channel, stop, terminals>>

\* child.kill(), the platform's kill (executor.rs 229)
SupervisorDefaultKill(t) ==
    /\ child_thread[t] = "fallback"
    /\ Terminated(t)
    /\ child_thread' = [child_thread EXCEPT ![t] = "wait"]
    /\ UNCHANGED <<cfgVars, runVars, stateVars, line_channel,
                   stderr_pipe, stderr_reader, stdout_pipe, stdout_reader,
                   stop_channel, stop, terminals>>

\* child.wait()? at the end of run_kill_command (executor.rs 250)
SupervisorKillWait(t) ==
    /\ child_thread[t] = "kill_wait"
    /\ child[t] \in {"exited", "reaped"}
    /\ child' = [child EXCEPT ![t] = "reaped"]
    /\ child_thread' = [child_thread EXCEPT ![t] = "wait"]
    /\ UNCHANGED <<cfgVars, runVars, stateVars, line_channel, left,
                   errVars, outVars, stop_channel, stop, terminals>>

\* child.wait() blocks until the process has ended, and reaps it
NotWaited(t) == TRUE
Waited(t) == child[t] \in {"exited", "reaped"}

\* child.wait() (executor.rs 204); the thread then ends, and drops the
\* receiver of the control channel with whatever it still holds
SupervisorWait(t) ==
    /\ child_thread[t] = "wait"
    /\ Waited(t)
    /\ child' = [child EXCEPT ![t] = IF @ = "exited" THEN "reaped" ELSE @]
    /\ child_thread' = [child_thread EXCEPT ![t] = "done"]
    /\ stop_channel' = [stop_channel EXCEPT ![t] = <<>>]
    /\ UNCHANGED <<cfgVars, runVars, stateVars, line_channel, left,
                   errVars, outVars, stop, terminals>>

\* ---------------------------------------------------------------- run()
\* the Change Filter, the watcher callback (app.rs 46-87): whether a raw event
\* of this kind, with this answer of the exclusion predicate, is sent on the
\* change-signal channel
PropagatesFailClosed(kind, excl) ==
    /\ kind \notin {"ModifyMetadata", "ModifyDataAny", "AccessOther"}
    /\ excl \notin {"AllExcluded", "CheckFailed"}
Propagates(kind, excl) ==
    /\ kind \notin {"ModifyMetadata", "ModifyDataAny", "AccessOther"}
    /\ excl # "AllExcluded"

\* TaskExecutor::die waits for the supervisor thread: child_thread.join()
JoinSkipped(t) == TRUE
Joined(t) == child_thread[t] = "done"

\* Unpause and TogglePause restart only when changes were seen (app.rs 216, 228)
AlwaysDirty == TRUE
Dirty == changes_since_last_job_start > 0

\* the arms of the action match that kill the task and start a new one: of
\* the toggles, only ToggleBacktrace (app.rs 203-207)
RestartsOnAnyToggle(a) ==
    \/ a \in {"Refresh", "ReRun", "ToggleBacktrace", "ToggleRawOutput",
               "ToggleSummary", "ToggleWrap"}
    \/ a = "Unpause" /\ Dirty
    \/ a = "TogglePause" /\ auto_refresh = "Paused" /\ Dirty
Restarts(a) ==
    \/ a \in {"Refresh", "ReRun", "ToggleBacktrace"}
    \/ a = "Unpause" /\ Dirty
    \/ a = "TogglePause" /\ auto_refresh = "Paused" /\ Dirty

\* the arms that call state.clear() first
Clears(a) == a = "Refresh" \/ (a \in {"Unpause", "TogglePause"} /\ Restarts(a))

\* the arms that break out of the loop: Back only when close_help() found no
\* help overlay to close
BreaksOnAnyBack(a) == a \in {"Quit", "Job", "Back"}
Breaks(a) == a \in {"Quit", "Job"} \/ (a = "Back" /\ ~help)

\* the AppState is not read any more once the loop is left (a break, or an
\* error return): its fields are given fixed values from then on
StateDead ==
    /\ computing' = FALSE
    /\ auto_refresh' = "Enabled"
    /\ changes_since_last_job_start' = 0
    /\ output' = <<>>
    /\ cmd_result' = NoResult
    /\ help' = FALSE

\* run() returns: its locals are dropped, the AppState, the MissionExecutor
\* with the receiver of the output channel, and task_executor among them
Return(r, job) ==
    /\ pc' = "returned"
    /\ ret' = r
    /\ next_job' = job
    /\ task_executor' = NoTask
    /\ action' = NoAction
    /\ StateDead
    /\ line_channel' = <<>>

\* a break out of the loop: the die() of app.rs 245 is called
Break(job) ==
    /\ pc' = "exit_die"
    /\ asked' = asked \cup {task_executor}
    /\ next_job' = job
    /\ action' = NoAction
    /\ line_channel' = <<>>
    /\ StateDead
    /\ UNCHANGED <<ret, task_executor>>

\* the match on the resolved action (app.rs 162-242), up to the point where
\* the loop blocks in die(), breaks, or redraws (state.draw(w)? can fail);
\* `out`, `res`, `comp`, `n` and `chan` are the output buffer, the result,
\* the computing flag, the change counter and the output channel as the
\* select branch left them
Apply(a, out, res, comp, n, chan) ==
    /\ Restarts(a) => started < MaxTasks
    /\ IF Breaks(a)
       THEN Break(IF a = "Back" THEN "Previous" ELSE IF a = "Job" THEN "Job" ELSE next_job)
       ELSE /\ pc' = IF Restarts(a) THEN "die" ELSE "select"
            /\ asked' = IF Restarts(a) THEN asked \cup {task_executor} ELSE asked
            /\ action' = IF Restarts(a) THEN a ELSE NoAction
            /\ output' = IF Clears(a) THEN ClearedOutput ELSE out
            /\ cmd_result' = IF Clears(a) THEN ClearedResult ELSE res
            /\ computing' = comp
            /\ changes_since_last_job_start' = n
            /\ line_channel' = chan
            /\ help' = CASE a = "Back" -> FALSE
                         [] a = "Help" -> ~help
                         [] OTHER -> help
            /\ auto_refresh' =
                  CASE a = "Pause" -> "Paused"
                    [] a = "TogglePause" /\ auto_refresh = "Enabled" -> "Paused"
                    [] a \in {"Unpause", "TogglePause"} /\ ~Restarts(a) -> "Enabled"
                    [] OTHER -> auto_refresh
            /\ UNCHANGED <<next_job, ret, task_executor>>

\* an iteration ends with an error: CommandResult::new(..)? (app.rs 123),
\* user_event? (app.rs 139) or state.draw(w)? (app.rs 243)
IterationError ==
    /\ pc = "select"
    /\ Return("err", "None")
    /\ UNCHANGED <<cfgVars, started, asked, taskVars>>

\* what a change signal resolves to (app.rs 107-111)
OnChangeAlwaysReRun == IF auto_refresh = "Enabled" THEN "ReRun" ELSE NoAction
OnChangeWhilePaused ==
    IF ~is_computing \/ on_change_strategy = "KillThenRestart"
    THEN "ReRun" ELSE NoAction
OnChange ==
    IF auto_refresh = "Enabled"
       /\ (~is_computing \/ on_change_strategy = "KillThenRestart")
    THEN "ReRun" ELSE NoAction

\* the counter after a signal was received: state.receive_watch_event() is
\* called first, whatever the signal then resolves to (app.rs 106)
CountedWhenIgnored ==
    IF OnChange = NoAction THEN receive_watch_event
    ELSE changes_since_last_job_start
CountedChanges == receive_watch_event

\* select branch: a change signal is received (app.rs 105-112)
ReceiveChange ==
    /\ pc = "select"
    /\ changes_since_last_job_start < MaxChanges
    /\ Apply(OnChange, output, cmd_result, computing, CountedChanges, line_channel)
    /\ UNCHANGED <<missionVars, started, taskVars>>

\* the watcher callback sends a signal for some raw event, and the loop
\* receives it: the channel is bounded(0), the send and the receive meet
WatchEvent ==
    /\ \E kind \in EventKinds, excl \in Exclusions : Propagates(kind, excl)
    /\ ReceiveChange
    /\ UNCHANGED raw_event

\* the watcher callback handles the raw event raw_event (app.rs 46-87): it
\* returns without a signal, or sends one, which the loop receives
WatcherCallback ==
    /\ raw_event # NoEvent
    /\ raw_event' = NoEvent
    /\ IF Propagates(raw_event.kind, raw_event.excl)
       THEN ReceiveChange
       ELSE UNCHANGED <<missionVars, runVars, stateVars, line_channel, taskVars>>

\* whether the End handler (app.rs 119-126) leaves the loop because of the
\* exit status it received: it never looks at the status
FailureEndsLoop(status) == status = "failure"
StatusEndsLoop(status) == FALSE

\* select branch: an event of the output channel is received (app.rs 113-137)
OutputEvent ==
    /\ pc = "select"
    /\ line_channel # <<>>
    /\ LET ev == Head(line_channel)
           rest == Tail(line_channel)
           n == changes_since_last_job_start
       IN CASE ev.kind = "Line" ->
                 Apply(NoAction, add_line(ev.task), cmd_result, computing, n, rest)
            [] ev.kind = "End" ->
                 IF StatusEndsLoop(ev.info)
                 THEN Break(next_job)
                 ELSE \E a \in ResultActions :
                         Apply(a, take_output, CommandResult(ev), FALSE, n, rest)
            [] ev.kind = "Error" -> \* computation_stops(), break
                 Break(next_job)
            [] OTHER -> \* Interruption: logged
                 Apply(NoAction, output, cmd_result, computing, n, rest)
    /\ UNCHANGED <<cfgVars, started, taskVars>>

\* select branch: a user event is received (app.rs 138-159); a key
\* combination resolves to the action bound to it, if any (a resize event
\* resolves to none)
UserEvent ==
    /\ pc = "select"
    /\ \E a \in Actions \cup {NoAction} :
          Apply(a, output, cmd_result, computing, changes_since_last_job_start,
                line_channel)
    /\ UNCHANGED <<cfgVars, started, taskVars>>

\* die(): Kill is sent on the control channel (executor.rs 67)
DieSend ==
    /\ pc \in {"die", "exit_die"}
    /\ StopSendReady(task_executor)
    /\ stop_channel' = StopSend(task_executor, "Kill")
    /\ pc' = IF pc = "die" THEN "join" ELSE "exit_join"
    /\ UNCHANGED <<cfgVars, action, next_job, ret, task_executor, started,
                   asked, stateVars, line_channel, child, left,
                   errVars, outVars, child_thread, stop, terminals>>

\* die() returns in a restarting arm, then state.start_computation(executor)
\* and the rest of the arm
DieJoin ==
    /\ pc = "join"
    /\ Joined(task_executor)
    /\ started' = started + 1
    /\ StartTask(started + 1)
    /\ task_executor' = started + 1
    /\ computing' = computation_starts
    /\ changes_since_last_job_start' = 0
    /\ auto_refresh' = IF action \in {"Unpause", "TogglePause"}
                       THEN "Enabled" ELSE auto_refresh
    /\ pc' = "select"
    /\ action' = NoAction
    /\ UNCHANGED <<cfgVars, next_job, ret, asked, output,
                   cmd_result, help, line_channel>>

\* state.start_computation(executor)? fails: the command cannot be spawned
SpawnError ==
    /\ pc = "join"
    /\ Joined(task_executor)
    /\ Return("err", "None")
    /\ UNCHANGED <<cfgVars, started, asked, taskVars>>

\* the die() after the loop returns, and run() returns Ok(next_job) (app.rs 245-246)
ExitJoin ==
    /\ pc = "exit_join"
    /\ Joined(task_executor)
    /\ Return("ok", next_job)
    /\ UNCHANGED <<cfgVars, started, asked, taskVars>>

\* ---------------------------------------------------------------- specification
\* the state after line 97 of app.rs: the first task is started, with a
\* process that writes up to `n` lines
InitLines(n) ==
    /\ on_change_strategy \in OnChangeStrategy
    /\ with_stdout \in BOOLEAN
    /\ kill_command \in KillCommands
    /\ pc = "select"
    /\ action = NoAction
    /\ next_job = "None"
    /\ ret = "none"
    /\ task_executor = 1
    /\ started = 1
    /\ asked = {}
    /\ computing = computation_starts
    /\ auto_refresh = "Enabled"
    /\ changes_since_last_job_start = 0
    /\ output = <<>>
    /\ cmd_result = NoResult
    /\ help = FALSE
    /\ line_channel = <<>>
    /\ child = [t \in Tasks |-> IF t = 1 THEN "running" ELSE "none"]
    /\ left = [t \in Tasks |-> IF t = 1 THEN n ELSE 0]
    /\ stderr_open = [t \in Tasks |-> t = 1]
    /\ stderr_pipe = [t \in Tasks |-> <<>>]
    /\ stderr_reader = [t \in Tasks |-> IF t = 1 THEN "reading" ELSE "none"]
    /\ stdout_open = [t \in Tasks |-> t = 1 /\ StdoutPiped]
    /\ stdout_pipe = [t \in Tasks |-> 0]
    /\ stdout_reader = [t \in Tasks |->
                          IF t = 1 /\ StdoutPiped THEN "reading" ELSE "none"]
    /\ child_thread = [t \in Tasks |-> IF t = 1 THEN "recv" ELSE "none"]
    /\ stop_channel = [t \in Tasks |-> <<>>]
    /\ stop = [t \in Tasks |-> "none"]
    /\ terminals = [t \in Tasks |-> 0]

InitRun == InitLines(MaxLines)

\* the raw events of the watcher are not followed one by one
Init == InitRun /\ raw_event = NoEvent

\* the end of the stdout reader thread (StdoutEof) changes nothing the loop,
\* the supervisor or the other reader can see: it is a step of SpecStreams
\* only, and here a reader that met the end of its stream stays "reading"
Next ==
    \/ WatchEvent
    \/ OutputEvent
    \/ UserEvent
    \/ IterationError
    \/ DieSend
    \/ DieJoin
    \/ SpawnError
    \/ ExitJoin
    \/ \E t \in Tasks : ChildWriteStderr(t)
    \/ \E t \in Tasks : ChildWriteStdout(t)
    \/ \E t \in Tasks : ChildCloseStderr(t)
    \/ \E t \in Tasks : ChildExit(t)
    \/ \E t \in Tasks : StdoutReadLine(t)
    \/ \E t \in Tasks : StderrReadLine(t)
    \/ \E t \in Tasks : StderrEof(t)
    \/ \E t \in Tasks : SupervisorRecv(t)
    \/ \E t \in Tasks : SupervisorKill(t)
    \/ \E t \in Tasks : SupervisorDefaultKill(t)
    \/ \E t \in Tasks : SupervisorKillWait(t)
    \/ \E t \in Tasks : SupervisorWait(t)

Spec == Init /\ [][Next]_vars

\* a step of the supervisor thread of task t
SupervisorStep(t) ==
    \/ SupervisorRecv(t)
    \/ SupervisorKill(t)
    \/ SupervisorDefaultKill(t)
    \/ SupervisorKillWait(t)
    \/ SupervisorWait(t)

\* the threads are scheduled by the operating system and the loop thread is
\* not starved: a step of a supervisor that stays possible is eventually
\* taken, and so is the return of a die() whose join() can return
FairSpec ==
    /\ Spec
    /\ WF_vars(\E t \in Tasks : SupervisorStep(t))
    /\ WF_vars(DieJoin \/ SpawnError \/ ExitJoin)

\* the process obeys a kill command that succeeded: it ends while the
\* supervisor waits for it in run_kill_command
KillCommandObeyed(t) == child_thread[t] = "kill_wait" /\ ChildExit(t)

FairSpecKill ==
    /\ Spec
    /\ WF_vars(\E t \in Tasks : SupervisorStep(t))
    /\ WF_vars(\E t \in Tasks : KillCommandObeyed(t))

\* a step of a reader thread of task t
ReaderStep(t) == StderrReadLine(t) \/ StderrEof(t) \/ StdoutReadLine(t)

\* every thread of the program is scheduled (the supervisors, the readers,
\* and the loop thread inside die() and after it) and the process obeys a
\* kill command that succeeded; the process need not end by itself
FairSpecDie ==
    /\ Spec
    /\ WF_vars(\E t \in Tasks : SupervisorStep(t))
    /\ WF_vars(\E t \in Tasks : ReaderStep(t))
    /\ WF_vars(DieSend \/ DieJoin \/ SpawnError \/ ExitJoin)
    /\ WF_vars(\E t \in Tasks : KillCommandObeyed(t))

\* a run during which the user gives no input: no key is pressed and the
\* terminal is not resized
NextUnattended ==
    \/ WatchEvent
    \/ OutputEvent
    \/ IterationError
    \/ DieSend
    \/ DieJoin
    \/ SpawnError
    \/ ExitJoin
    \/ \E t \in Tasks : ChildWriteStderr(t)
    \/ \E t \in Tasks : ChildWriteStdout(t)
    \/ \E t \in Tasks : ChildCloseStderr(t)
    \/ \E t \in Tasks : ChildExit(t)
    \/ \E t \in Tasks : StdoutReadLine(t)
    \/ \E t \in Tasks : StderrReadLine(t)
    \/ \E t \in Tasks : StderrEof(t)
    \/ \E t \in Tasks : SupervisorRecv(t)
    \/ \E t \in Tasks : SupervisorKill(t)
    \/ \E t \in Tasks : SupervisorDefaultKill(t)
    \/ \E t \in Tasks : SupervisorKillWait(t)
    \/ \E t \in Tasks : SupervisorWait(t)

SpecUnattended == Init /\ [][NextUnattended]_vars

\* the unattended program with the end of the stdout reader thread, which
\* nothing in the program observes
NextStreams == NextUnattended \/ \E t \in Tasks : StdoutEof(t)
SpecStreams == Init /\ [][NextStreams]_vars

\* the first task alone, writing several lines, with a loop that only
\* receives its output: no change signal, no user event, no error
OrderLines == 3
InitOrder == InitLines(OrderLines) /\ raw_event = NoEvent
NextOrder ==
    \/ OutputEvent
    \/ \E t \in Tasks : ChildWriteStderr(t)
    \/ \E t \in Tasks : ChildWriteStdout(t)
    \/ \E t \in Tasks : ChildCloseStderr(t)
    \/ \E t \in Tasks : ChildExit(t)
    \/ \E t \in Tasks : StdoutReadLine(t)
    \/ \E t \in Tasks : StderrReadLine(t)
    \/ \E t \in Tasks : StderrEof(t)
    \/ \E t \in Tasks : SupervisorRecv(t)
    \/ \E t \in Tasks : SupervisorWait(t)
SpecOrder == InitOrder /\ [][NextOrder]_vars

\* the watcher callback on one raw event, of any kind and with any answer
\* of the exclusion predicate, in the state the first task was started in
InitFilter == InitRun /\ raw_event \in RawEvents

SpecFilter == InitFilter /\ [][WatcherCallback]_vars

\* ---------------------------------------------------------------- properties
\* a task is live while its process has not been reaped or its supervisor
\* thread has not ended
Live(t) == \/ child[t] \in {"running", "exited"}
           \/ child_thread[t] \notin {"none", "done"}

\* die() has been called on the task and has returned
DieReturned(t) == t \in asked /\ task_executor # t

\* C1: at most one task is live at any time: when a task is started, every
\* task started before it has been killed or has ended, its process is reaped
\* and its supervisor thread has ended
C1_AtMostOneLiveTask ==
    /\ Cardinality({t \in Tasks : Live(t)}) <= 1
    /\ \A t \in Tasks : t < started => ~Live(t) /\ child[t] = "reaped"

\* a second task runs, after the first one was killed while it was running
C1_Witness ==
    /\ started = 2 /\ child[2] = "running" /\ child_thread[2] = "recv"
    /\ child[1] = "reaped" /\ terminals[1] = 0

\* C2: once die() has returned, the supervisor thread of the task has ended
\* and the process has been reaped by it
C2_DieReturnsAfterReap ==
    \A t \in Tasks :
        DieReturned(t) => child_thread[t] = "done" /\ child[t] = "reaped"

\* die() has returned, in a restart, on a task whose supervisor was already
\* waiting for the process when Kill was sent
C2_Witness ==
    /\ pc = "select" /\ DieReturned(1) /\ terminals[1] = 1
    /\ child[2] = "running"

\* steps of the loop, recognised from the outside
\* a change signal is received and counted
ChangeCounted == /\ pc = "select"
                 /\ changes_since_last_job_start' = changes_since_last_job_start + 1
\* the event at the head of the output channel is received, and the loop goes on
Received(k) == /\ pc = "select" /\ pc' \in {"select", "die"}
               /\ line_channel # <<>>
               /\ Head(line_channel).kind = k
               /\ line_channel' = Tail(line_channel)
\* the loop blocks in the die() of a restarting arm
RestartBegins == /\ pc = "select" /\ pc' = "die"
                 /\ asked' = asked \cup {task_executor}
\* the die() of a restarting arm has returned and the new task is started
RestartEnds == /\ pc = "join" /\ pc' = "select"
               /\ started' = started + 1
               /\ task_executor' = started + 1
               /\ child'[started + 1] = "running"
\* the loop neither kills nor starts a task in this step
NoRestart == /\ pc' = pc /\ started' = started /\ asked' = asked
             /\ task_executor' = task_executor /\ stop_channel' = stop_channel

NoTerminalYet == \A t \in Tasks : terminals[t] = 0

\* C4: under KillThenRestart with AutoRefresh Enabled, a change signal
\* received while Computing makes the loop kill the task in flight and start
\* a new one, and every Line the loop then receives and adds to the
\* accumulated output is a Line of the current task, never of a killed one
C4_NoStaleLine ==
    [][ ( /\ on_change_strategy = "KillThenRestart"
          /\ auto_refresh = "Enabled"
          /\ NoTerminalYet )
        => /\ (computing /\ ChangeCounted)
                 => RestartBegins /\ action' = "ReRun"
           /\ (Received("Line") /\ output' = add_line(Head(line_channel).task))
                 => Head(line_channel).task = task_executor
      ]_vars

\* C5: once die() has returned on a task, no event of that task is on the
\* output channel, where the loop would receive it: none is still queued and
\* none is sent later
C5_NoEventAfterDie ==
    \A i \in DOMAIN line_channel : ~DieReturned(line_channel[i].task)

\* the supervisor of t takes, in this step, the branch of the message `msg`
Branch(t, msg) == child_thread[t] = "recv" /\ stop'[t] = msg

Applied(a) ==
    /\ pc = "select"
    /\ Apply(a, output, cmd_result, computing, changes_since_last_job_start,
             line_channel)

\* C7: TogglePause or Unpause applied while AutoRefresh is Paused: with
\* changes counted the loop clears the state and begins a restart, which
\* starts exactly one task and leaves AutoRefresh Enabled; with none counted
\* it neither kills nor starts a task and AutoRefresh becomes Enabled.
\* TogglePause applied while Enabled sets Paused and neither kills nor starts
\* a task
C7_TogglePause ==
    [][ /\ ( /\ auto_refresh = "Paused"
             /\ Applied("TogglePause") \/ Applied("Unpause") )
           => IF changes_since_last_job_start > 0
              THEN /\ RestartBegins
                   /\ output' = <<>> /\ cmd_result' = NoResult
              ELSE /\ NoRestart
                   /\ auto_refresh' = "Enabled"
        /\ ( /\ pc = "join" /\ pc' = "select"
             /\ action \in {"TogglePause", "Unpause"} )
           => /\ RestartEnds
              /\ auto_refresh' = "Enabled"
              /\ changes_since_last_job_start' = 0
        /\ ( /\ auto_refresh = "Enabled"
             /\ Applied("TogglePause") )
           => /\ NoRestart
              /\ auto_refresh' = "Paused"
      ]_vars

\* TogglePause was applied while Paused with a change counted: the loop waits
\* in die() for the supervisor of the task it is about to replace
C7_Witness ==
    /\ pc = "join" /\ action = "TogglePause"
    /\ auto_refresh = "Paused" /\ changes_since_last_job_start > 0

\* C8: when run() returns after a break out of the loop, die() has been
\* called on the current task and has returned: no task has a process that
\* is not reaped, or a supervisor thread that has not ended
C8_NoProcessSurvivesBreak ==
    (pc = "returned" /\ ret = "ok") =>
        /\ \A t \in Tasks : ~Live(t)
        /\ \A t \in Tasks : t <= started => t \in asked /\ child[t] = "reaped"

\* run() has returned the previous job (Back with the help closed) after the
\* die() at the end of the loop killed the second task, which was running
C8_Witness ==
    /\ pc = "returned" /\ ret = "ok" /\ next_job = "Previous"
    /\ started = 2 /\ stop[2] = "Kill" /\ child[2] = "reaped"

\* C9: a TaskExecutor that the local task_executor does not hold any more
\* (moved out, or dropped when run() returned) has been asked to die before
C9_NeverDroppedUnasked ==
    \A t \in Tasks : (t <= started /\ task_executor # t) => t \in asked

\* a custom kill command is configured and has failed for task t
KillCommandFailed(t) ==
    /\ kill_command \in {"Empty", "Cmd"}
    /\ child_thread[t] = "fallback"

\* C10: a supervisor that leaves kill() has ended the process: a kill
\* command that is empty, cannot be spawned or exits nonzero is followed by
\* the default kill; the supervisor then ends, and the die() that waits for
\* it returns
C10_KillCommandFallback ==
    /\ [](\A t \in Tasks :
            (child_thread[t] = "wait" /\ stop[t] \in {"Kill", "Disconnected"})
               => child[t] # "running")
    /\ ( /\ pc \in {"join", "exit_join"}
         /\ KillCommandFailed(task_executor) )
          ~> pc \in {"select", "returned"}

\* the configured kill command is empty, so it failed; the default kill ended
\* the first task, and the die() of the restart has returned
C10_Witness ==
    /\ kill_command = "Empty"
    /\ started = 2 /\ pc = "select" /\ DieReturned(1)
    /\ stop[1] = "Kill" /\ child[1] = "reaped" /\ child_thread[1] = "done"

\* the loop is in its select and the next event of the output channel is `k`
Next_Is(k) == /\ pc = "select" /\ line_channel # <<>>
              /\ Head(line_channel).kind = k

C12_NoStdoutLine ==
    ~with_stdout =>
        /\ \A i \in DOMAIN line_channel :
              ~(line_channel[i].kind = "Line" /\ line_channel[i].info = "StdOut")
        /\ \A t \in Tasks : stdout_pipe[t] = 0

\* the first task, whose stdout is not piped, has written its line to
\* stdout: nothing went to stderr and nothing reached the loop
C12_Witness ==
    /\ ~with_stdout /\ started = 1 /\ asked = {} /\ pc = "select"
    /\ child[1] = "running" /\ left[1] = 0
    /\ stderr_pipe[1] = <<>> /\ line_channel = <<>> /\ output = <<>>

\* C13: the callback sends a change signal (which the loop counts) for a raw
\* event exactly when its kind is a close after write or a kind that is not
\* recognised (not a metadata modify, not an `any` data change, not another
\* access), and the exclusion predicate, when there is one, does not answer
\* that all paths are excluded: a failed check counts as not excluded
C13_ChangeFilter ==
    [][ (raw_event # NoEvent /\ raw_event' = NoEvent) =>
          ( changes_since_last_job_start' = changes_since_last_job_start + 1
            <=> /\ raw_event.kind \in {"AccessCloseWrite", "Other"}
                /\ raw_event.excl \in {"NoIgnorer", "SomeIncluded", "CheckFailed"} )
      ]_vars

\* the callback has handled a raw event and sent a signal for it, and the
\* loop has counted the change
C13_Witness ==
    /\ raw_event = NoEvent /\ changes_since_last_job_start = 1
    /\ on_change_strategy = "WaitThenRestart" /\ pc = "select"

\* the state of the loop exists: run() has neither left the loop nor returned
StateAlive == pc \in {"select", "die", "join"}

\* C14: every change signal the loop receives adds one to the counter, the
\* start of a task sets it to zero, and nothing else changes it as long as
\* the state exists: it counts the signals received since the last start
C14_ChangeCounter ==
    [][ /\ ReceiveChange
           => changes_since_last_job_start' = changes_since_last_job_start + 1
        /\ started' # started
           => /\ started' = started + 1
              /\ changes_since_last_job_start' = 0
        /\ (StateAlive' /\ started' = started)
           => \/ changes_since_last_job_start' = changes_since_last_job_start
              \/ /\ ReceiveChange
                 /\ changes_since_last_job_start' = changes_since_last_job_start + 1
      ]_vars /\ (changes_since_last_job_start = 0)

\* a change was counted after the second task was started, which had reset
\* the counter
C14_Witness ==
    /\ started = 2 /\ pc = "select" /\ computing
    /\ changes_since_last_job_start = 1
    /\ on_change_strategy = "WaitThenRestart" /\ auto_refresh = "Enabled"
    /\ cmd_result.task = 1

\* C15: a change signal received by the loop resolves to ReRun, which begins
\* a restart, exactly when AutoRefresh is Enabled and the state is not
\* Computing or the strategy is KillThenRestart; otherwise, and always while
\* Paused, the signal is counted and nothing else happens: no task is killed
\* or started
C15_ReRunOnChange ==
    [][ ChangeCounted =>
          IF /\ auto_refresh = "Enabled"
             /\ ~computing \/ on_change_strategy = "KillThenRestart"
          THEN RestartBegins /\ action' = "ReRun"
          ELSE /\ NoRestart /\ action' = NoAction
               /\ UNCHANGED <<auto_refresh, computing, output, cmd_result,
                              line_channel, taskVars>>
      ]_vars

\* a change was received while Paused and Idle: it is counted, the first
\* task is still the current one and nothing was asked to die
C15_Witness ==
    /\ auto_refresh = "Paused" /\ ~computing /\ pc = "select"
    /\ changes_since_last_job_start = 1
    /\ started = 1 /\ task_executor = 1 /\ asked = {}

\* the number of End events of task `t` waiting in the output channel
EndsInChannel(t) ==
    Cardinality({i \in DOMAIN line_channel :
                    line_channel[i].kind = "End" /\ line_channel[i].task = t})

\* C16: within one task at most one terminal event is put on the output
\* channel, and it is an End sent after the stderr reader reached its end of
\* stream and the supervisor received SendStatus; the end of the stdout
\* stream alone produces no End, and a task whose supervisor received Kill
\* produces none
C16_EndOnlyOnStderrEof ==
    \A t \in Tasks :
        /\ terminals[t] <= 1
        /\ EndsInChannel(t) <= terminals[t]
        /\ terminals[t] = 1 =>
              stop[t] = "SendStatus" /\ stderr_reader[t] = "done"
        /\ (stdout_reader[t] = "done" /\ stderr_reader[t] # "done") =>
              terminals[t] = 0 /\ stop[t] # "SendStatus"
        /\ stop[t] = "Kill" => terminals[t] = 0 /\ EndsInChannel(t) = 0

\* the first task saw the end of its stdout stream and was then killed,
\* without an End; the second saw the end of its stdout stream before the
\* end of its stderr stream, which produced its End
C16_Witness ==
    /\ stdout_reader[1] = "done" /\ stop[1] = "Kill" /\ terminals[1] = 0
    /\ stdout_reader[2] = "done" /\ stderr_reader[2] = "done"
    /\ stop[2] = "SendStatus" /\ terminals[2] = 1

\* C17, as stated: the state is Idle only if the loop handled a terminal
\* event of the current task since its start: while the loop waits in its
\* select with the flag down, the result it holds was made from the End of
\* the task the TaskExecutor stands for
C17_IdleOnlyAfterOwnEnd ==
    (pc = "select" /\ ~computing) => cmd_result.task = task_executor

\* the supervisor of task `t` received Kill, or found its control channel
\* abandoned
ToldToKill(t) == stop[t] \in {"Kill", "Disconnected"}

C19_NextJob ==
    [][ /\ (~help /\ Applied("Back")) =>
              pc' = "exit_die" /\ next_job' = "Previous"
        /\ Applied("Job") => pc' = "exit_die" /\ next_job' = "Job"
        /\ Applied("Quit") => pc' = "exit_die" /\ next_job' = "None"
        /\ (help /\ Applied("Back")) =>
              /\ ~help' /\ pc' = "select"
              /\ UNCHANGED <<next_job, ret, task_executor, started>>
        /\ next_job' # next_job =>
              /\ pc = "select" /\ pc' = "exit_die"
              /\ (~help /\ Applied("Back")) \/ Applied("Job")
        /\ (ret = "none" /\ ret' = "ok") => pc = "exit_join"
        /\ (ret = "none" /\ ret' = "err") => next_job = "None"
        /\ pc = "select" => next_job = "None"
      ]_vars

\* run() has returned the previous job, after a restart
C19_Witness ==
    /\ pc = "returned" /\ ret = "ok" /\ next_job = "Previous" /\ started = 2

\* the actions that only change what is shown, or export, or pause
ViewActions == {"Scroll", "ToggleRawOutput", "ToggleSummary", "ToggleWrap",
                "Help", "Pause", "Export"}

\* C20: the loop, in a step that is not one of a supervisor or of the
\* process, applying Scroll, ToggleRawOutput, ToggleSummary, ToggleWrap, Help,
\* Pause or Export keeps the TaskExecutor, the computing flag and the change
\* counter, and the loop goes back to its select: no die() is begun, no task
\* is asked to die, nothing is returned; Pause sets AutoRefresh to Paused and
\* changes nothing else of the state, the others keep AutoRefresh
C20_ViewActionsFrame ==
    [][ (pc = "select" /\ child_thread' = child_thread /\ child' = child) =>
          \A a \in ViewActions :
            Applied(a) =>
              /\ pc' = "select" /\ asked' = asked
              /\ UNCHANGED <<task_executor, computing,
                             changes_since_last_job_start, next_job, ret,
                             output, cmd_result, line_channel>>
              /\ IF a = "Pause"
                 THEN auto_refresh' = "Paused" /\ help' = help
                 ELSE auto_refresh' = auto_refresh
      ]_vars

\* the help overlay was opened and AutoRefresh paused while the first task
\* is computing: it still runs, and was not asked to die
C20_Witness ==
    /\ pc = "select" /\ help /\ auto_refresh = "Paused"
    /\ started = 1 /\ task_executor = 1 /\ computing
    /\ child[1] = "running" /\ 1 \notin asked

\* C21, as stated: once die() is called on a task, the process is ended and
\* die() returns: the loop goes on to its select, or run() returns
C21_DieReturns ==
    (pc \in {"die", "exit_die"}) ~> (pc \in {"select", "returned"})

\* the event at position `i` of the output channel is a stderr Line of `t`
StderrLineAt(i, t) ==
    /\ line_channel[i].kind = "Line" /\ line_channel[i].info = "StdErr"
    /\ line_channel[i].task = t

\* C22: the stderr Lines of a task are on the output channel in the order
\* the reader read them (the process numbers its lines downwards), before
\* the lines still in the pipe, and before the End of the task: when the End
\* has been sent the reader has ended with nothing left to read, and no
\* stderr Line of the task follows an End of the task on the channel
C22_LinesBeforeEnd ==
    \A t \in Tasks :
        /\ \A i, j \in DOMAIN line_channel :
              (i < j /\ StderrLineAt(j, t)) =>
                 /\ ~(line_channel[i].kind = "End" /\ line_channel[i].task = t)
                 /\ StderrLineAt(i, t) => line_channel[i].no > line_channel[j].no
        /\ \A i \in DOMAIN line_channel : \A k \in DOMAIN stderr_pipe[t] :
              StderrLineAt(i, t) => line_channel[i].no > stderr_pipe[t][k]
        /\ terminals[t] = 1 =>
              stderr_pipe[t] = <<>> /\ stderr_reader[t] = "done"

\* three stderr Lines of the first task wait on the output channel, followed
\* by its End
C22_Witness ==
    /\ Len(line_channel) = 4
    /\ \A i \in 1..3 : StderrLineAt(i, 1)
    /\ line_channel[4].kind = "End" /\ line_channel[4].task = 1

====
